---- MODULE Spec2Model ----
(***************************************************************************)
(* A model of the deterministic machinery of firewise-agents:               *)
(*   - tools/debt_calc.py     calculate_debt_payoff                         *)
(*   - agents/import_agent.py analyze_import, extract_json_from_response,   *)
(*                            extract_text_from_csv                         *)
(*   - agents/runway_agent.py calculate_runway, behind routes/runway.py     *)
(*   - tools/stock_growth.py  get_stock_growth                              *)
(* Each operation is one action over its own variables; each component has  *)
(* its own specification (SpecDebt, SpecImport, SpecRecover, SpecCsv,       *)
(* SpecRunway, SpecStock) over the shared Init.                             *)
(***************************************************************************)
EXTENDS Integers, Sequences, FiniteSets, TLC

VARIABLES
    debt_pc,        \* "idle" | "returned" | "raised": how the last call ended
    debt_args,      \* the arguments of the last calculate_debt_payoff call
    debt_fp,        \* signs of the IEEE-754 rounding errors met during that call
    debt_result,    \* the dict it returned, or the exception it raised
    imp_pc,         \* "idle" | "returned" | "raised": how the last analyze_import ended
    imp_request,    \* the uploaded document of the last analyze_import call
    imp_env,        \* what the text-generation collaborator did during that call
    imp_trace,      \* the collaborators and stages that call went through, in order
    imp_llm_input,  \* the length of the text handed to the model (-1: none was)
    imp_response,   \* the ImportResponse it returned, or the exception it raised
    rec_pc,         \* "idle" | "returned" | "raised": how the last recovery ended
    rec_text,       \* the text of the last extract_json_from_response call
    rec_result,     \* the value it returned, or the exception it raised
    csv_pc,         \* "idle" | "returned" | "raised": how the last CSV extraction ended
    csv_content,    \* the bytes of the last extract_text_from_csv call
    csv_result,     \* the text it returned
    run_pc,         \* "idle" | "returned" | "raised": how the last calculate_runway ended
    run_request,    \* the RunwayRequest of the last runway request
    run_env,        \* what the model call and the recovery of its reply came to
    run_llm_input,  \* the totals handed to the model (<<>>: none were)
    run_result,     \* the RunwayResponse calculate_runway returned, or its exception
    run_http,       \* what the route answered: status code and body
    stock_pc,       \* "idle" | "returned" | "raised": how the last get_stock_growth ended
    stock_args,     \* the ticker and years of the last get_stock_growth call
    stock_env,      \* the day of that call and what the historical price lookup came to
    stock_result    \* the dict it returned

debt_vars == <<debt_pc, debt_args, debt_fp, debt_result>>
imp_vars == <<imp_pc, imp_request, imp_env, imp_trace, imp_llm_input, imp_response>>

rec_vars == <<rec_pc, rec_text, rec_result>>

csv_vars == <<csv_pc, csv_content, csv_result>>

run_vars == <<run_pc, run_request, run_env, run_llm_input, run_result, run_http>>

stock_vars == <<stock_pc, stock_args, stock_env, stock_result>>

vars == <<debt_vars, imp_vars, rec_vars, csv_vars, run_vars, stock_vars>>

-----------------------------------------------------------------------------
(* Numbers.  Python floats are modelled as exact values on a grid:          *)
(*   amounts (balance, monthly_payment) are integers in a unit of           *)
(*     1/UnitsPerCent of a cent, so that round(x, 2) is not the identity;   *)
(*   annual_rate = 12 * a / RateDen, so that monthly_rate = a / RateDen.    *)
(* Two float classes that the grid cannot hold are separate values:         *)
(*   Inf      float('inf') (a balance above every finite amount),           *)
(*   TinyRate a positive rate below 2^-53, for which 1 + monthly_rate       *)
(*            evaluates to 1.0.                                             *)
(* The rounding error of a computed float is kept as its sign only: it      *)
(* decides a comparison of two values that are equal in exact arithmetic,   *)
(* the ceiling of a quotient that is an integer in exact arithmetic, and a  *)
(* tie of round(x, 2).                                                      *)

MaxBalance == 13
MaxPayment == 6
MaxRate == 3
RateDen == 2
UnitsPerCent == 4
MaxMonths == 99

Inf == MaxBalance * MaxPayment + 1
TinyRate == MaxRate + 1

BalanceValues == (-1 .. MaxBalance) \cup {Inf}
PaymentValues == -1 .. MaxPayment
RateValues == (-1 .. MaxRate) \cup {TinyRate}
ErrSigns == {-1, 0, 1}
FpEnvs == [interest : ErrSigns, quotient : ErrSigns, round : ErrSigns]

\* math.ceil(n / d) for d > 0
Ceil(n, d) == -((-n) \div d)

\* round(n / d, ndigits) as a count of the last kept digit; Python rounds the
\* binary value correctly, so a decimal tie goes the way the representation
\* error e of the operand points, and an exact tie goes to the even digit.
RoundTo(n, d, e) ==
    LET q == n \div d
        rem == n - q * d
    IN  IF 2 * rem < d THEN q
        ELSE IF 2 * rem > d THEN q + 1
        ELSE IF e > 0 THEN q + 1
        ELSE IF e < 0 THEN q
        ELSE IF q % 2 = 0 THEN q ELSE q + 1

-----------------------------------------------------------------------------
(* tools/debt_calc.py *)

current_year == 2025

\* if balance <= 0:
AlreadyPaid_strict(balance) == balance < 0
AlreadyPaid(balance) == balance <= 0

\* if monthly_payment <= 0:
PaymentNotPositive_strict(monthly_payment) == monthly_payment < 0
PaymentNotPositive(monthly_payment) == monthly_payment <= 0

\* monthly_rate = annual_rate / 12; if monthly_rate <= 0:
ZeroInterest(annual_rate) == annual_rate <= 0

\* monthly_interest = balance * monthly_rate; if monthly_payment <= monthly_interest:
\* both sides are floats; when they are equal in exact arithmetic the two
\* roundings of annual_rate / 12 and balance * monthly_rate decide.
PaymentBelowInterest(balance, annual_rate, monthly_payment, err) ==
    IF balance = Inf THEN TRUE
    ELSE IF annual_rate = TinyRate THEN FALSE
    ELSE LET lhs == monthly_payment * RateDen
             rhs == balance * annual_rate
         IN  IF lhs = rhs THEN err >= 0 ELSE lhs < rhs

\* The least n with (1 + r)^n * (M - r * P) >= M, the value of
\* -log(1 - r * P / M) / log(1 + r) rounded up, in exact arithmetic:
\* lhs = (M * D - a * P) * (D + a)^n and rhs = M * D * D^n.
RECURSIVE ExactMonths(_, _, _, _)
ExactMonths(lhs, rhs, g, n) ==
    IF lhs >= rhs THEN [n |-> n, exact |-> lhs = rhs]
    ELSE ExactMonths(lhs * g, rhs * RateDen, g, n + 1)

\* months = math.ceil(-math.log(1 - (monthly_rate * balance) / monthly_payment)
\*                    / math.log(1 + monthly_rate))
\* Called with monthly_payment > monthly_interest as the floats compare.
\*   "zero_division": log(1 + monthly_rate) = log(1.0) = 0.0
\*   a payment equal to the interest in exact arithmetic leaves the rounding
\*   residue 2^-53 under the log, and the quotient is 36.7 / log(1 + r),
\*   above every count of the model: MaxMonths stands for it;
\*   a quotient that is an integer in exact arithmetic is rounded up to the
\*   next integer when its computed value errs upwards.
ClosedFormMonths(balance, annual_rate, monthly_payment, err) ==
    IF annual_rate = TinyRate THEN [fail |-> "ZeroDivisionError", months |-> 0]
    ELSE LET slack == monthly_payment * RateDen - balance * annual_rate
         IN  IF slack <= 0 THEN [fail |-> "", months |-> MaxMonths]
             ELSE LET x == ExactMonths(slack, monthly_payment * RateDen,
                                       RateDen + annual_rate, 0)
                  IN  [fail |-> "",
                       months |-> IF x.exact /\ err > 0 THEN x.n + 1 ELSE x.n]

\* return {"months_remaining": 0, "total_interest": 0, "payoff_year": 2025, ...}
AlreadyPaidResult ==
    [months_remaining |-> 0, total_interest |-> 0, payoff_year |-> 2025,
     status |-> "already_paid"]

\* return {"error": "Monthly payment must be positive", "months_remaining": -1}
InvalidPaymentResult ==
    [error |-> "Monthly payment must be positive", months_remaining |-> -1]

\* The zero-interest branch; math.ceil lies outside any try: it raises
\* OverflowError on an infinite quotient (ZeroDivisionError is what the
\* division would raise on a zero payment, which the guard above excludes).
ZeroInterestResult(balance, monthly_payment) ==
    IF monthly_payment = 0 THEN [raised |-> "ZeroDivisionError"]
    ELSE IF balance = Inf THEN [raised |-> "OverflowError"]
    ELSE LET months == Ceil(balance, monthly_payment)
         IN  [months_remaining |-> months,
              total_interest |-> 0,
              payoff_year |-> current_year + (months \div 12),
              payoff_month |-> months % 12,
              status |-> "on_track"]

\* The underwater branch; amounts are reported rounded to cents.
UnderwaterResult(balance, annual_rate, monthly_payment, fp) ==
    [error |-> "Payment doesn't cover monthly interest",
     monthly_interest |->
        IF balance = Inf THEN Inf
        ELSE RoundTo(balance * annual_rate, RateDen * UnitsPerCent, fp.round),
     monthly_payment |-> monthly_payment,
     shortfall |->
        IF balance = Inf THEN Inf
        ELSE RoundTo(balance * annual_rate - monthly_payment * RateDen,
                     RateDen * UnitsPerCent, fp.round),
     months_remaining |-> -1,
     status |-> "underwater"]

\* except (ValueError, ZeroDivisionError):
CalcErrorResult ==
    [error |-> "Unable to calculate - check inputs", months_remaining |-> -1]

\* The closed-form branch, lines 66-93.
AmortizedResult(balance, annual_rate, monthly_payment, fp) ==
    LET c == ClosedFormMonths(balance, annual_rate, monthly_payment, fp.quotient)
        months == c.months
        total_paid == months * monthly_payment
        total_interest == total_paid - balance
        payoff_years == months \div 12
        payoff_months == months % 12
    IN  IF c.fail # "" THEN CalcErrorResult
        ELSE [months_remaining |-> months,
              years_remaining |-> RoundTo(months * 10, 12, 0),
              total_interest |-> RoundTo(total_interest, UnitsPerCent, fp.round),
              total_paid |-> RoundTo(total_paid, UnitsPerCent, fp.round),
              payoff_year |-> current_year + payoff_years,
              payoff_month |-> payoff_months,
              status |-> "on_track"]

calculate_debt_payoff(balance, annual_rate, monthly_payment, fp) ==
    IF AlreadyPaid(balance) THEN AlreadyPaidResult
    ELSE IF PaymentNotPositive(monthly_payment) THEN InvalidPaymentResult
    ELSE IF ZeroInterest(annual_rate)
         THEN ZeroInterestResult(balance, monthly_payment)
    ELSE IF PaymentBelowInterest(balance, annual_rate, monthly_payment, fp.interest)
         THEN UnderwaterResult(balance, annual_rate, monthly_payment, fp)
    ELSE AmortizedResult(balance, annual_rate, monthly_payment, fp)

\* One call of the tool; a behaviour of the model is one call.
CalculateDebtPayoff ==
    /\ debt_pc = "idle"
    /\ \E balance \in BalanceValues, annual_rate \in RateValues,
       monthly_payment \in PaymentValues, fp \in FpEnvs :
        LET r == calculate_debt_payoff(balance, annual_rate, monthly_payment, fp)
        IN  /\ debt_args' = [balance |-> balance, annual_rate |-> annual_rate,
                             monthly_payment |-> monthly_payment]
            /\ debt_fp' = fp
            /\ debt_result' = r
            /\ debt_pc' = IF "raised" \in DOMAIN r THEN "raised" ELSE "returned"
            /\ UNCHANGED <<imp_vars, rec_vars, csv_vars, run_vars, stock_vars>>

-----------------------------------------------------------------------------
(* agents/import_agent.py, schemas/import_schema.py                         *)
(* A text is kept as its length and the length of text.strip(); an optional *)
(* field is <<>> (absent, None) or <<v>>; confidences are in percent.       *)

MaxAssets == 2

MinChars == 50
max_chars == 15000
ConfidenceCap == 70
ConfidenceDefault == 80
AssetConfidenceDefault == 100

AssetType == {"stock", "etf", "bond", "crypto", "cash", "deposit", "real_estate", "other"}

Min(a, b) == IF a <= b THEN a ELSE b

TextLengths == {0, MinChars - 1, MinChars, max_chars, max_chars + 1}
Texts == {t \in [len : TextLengths, usable : TextLengths] : t.usable <= t.len}

\* The documents of the model: a readable CSV with each text, and one
\* document for each way extract_text fails.
Document(b64, type, readable, text) ==
    [b64_ok |-> b64, file_type |-> type, readable |-> readable, text |-> text]
BlankDocument == Document(TRUE, "csv", TRUE, [len |-> 0, usable |-> 0])
Documents ==
    {Document(TRUE, "csv", TRUE, t) : t \in Texts}
    \cup {Document(FALSE, "pdf", TRUE, BlankDocument.text),
          Document(TRUE, "pdf", FALSE, BlankDocument.text),
          Document(TRUE, "xlsx", FALSE, BlankDocument.text),
          Document(TRUE, "txt", TRUE, BlankDocument.text)}

\* extract_text: ValueError on invalid base64, on a PDF or Excel file the
\* parser cannot read, and on any other file type; CSV extraction always
\* returns text.
extract_text(doc) ==
    IF ~doc.b64_ok THEN [error |-> "Invalid base64 encoding", text |-> doc.text]
    ELSE IF doc.file_type = "pdf"
         THEN IF doc.readable THEN [error |-> "", text |-> doc.text]
              ELSE [error |-> "Failed to extract text from PDF", text |-> doc.text]
    ELSE IF doc.file_type = "csv" THEN [error |-> "", text |-> doc.text]
    ELSE IF doc.file_type = "xlsx"
         THEN IF doc.readable THEN [error |-> "", text |-> doc.text]
              ELSE [error |-> "Failed to extract text from Excel", text |-> doc.text]
    ELSE [error |-> "Unsupported file type", text |-> doc.text]

\* if not document_text or len(document_text.strip()) < 50:
EmptyDocument_unstripped(text) == text.len = 0 \/ text.len < MinChars
EmptyDocument(text) == text.len = 0 \/ text.usable < MinChars

\* if len(document_text) > max_chars: document_text = document_text[:max_chars]
Truncated(text) == text.len > max_chars
HandedLength(text) == IF Truncated(text) THEN max_chars ELSE text.len

\* The candidate assets a reply can hold.
Candidate(name, type, shares, price, value, conf) ==
    [name |-> name, type |-> type, ticker |-> <<>>, shares |-> shares,
     currency |-> <<>>, market |-> <<>>, current_price |-> price,
     total_value |-> value, confidence |-> conf]
Apple == Candidate(<<"Apple Inc.">>, <<"stock">>, <<100>>, <<185>>, <<18500>>, <<95>>)
Fund == Candidate(<<"Index Fund">>, <<"fund">>, <<10>>, <<>>, <<>>, <<>>)
Untyped == Candidate(<<"Mystery">>, <<>>, <<5>>, <<>>, <<>>, <<50>>)
Shareless == Candidate(<<"Vanguard ETF">>, <<"etf">>, <<>>, <<200>>, <<4000>>, <<90>>)
Overconfident == Candidate(<<"Bitcoin">>, <<"crypto">>, <<2>>, <<>>, <<>>, <<150>>)
Candidates == {Apple, Fund, Untyped, Shareless, Overconfident}

RECURSIVE SeqsUpTo(_, _)
SeqsUpTo(S, n) ==
    IF n = 0 THEN {<<>>}
    ELSE LET shorter == SeqsUpTo(S, n - 1)
         IN  shorter \cup {Append(q, x) : q \in {p \in shorter : Len(p) = n - 1}, x \in S}

\* ExtractedAsset(**a): name, type and shares are required, type is one of
\* AssetType; currency and confidence have defaults.
ValidAsset(a) ==
    /\ Len(a.name) = 1
    /\ Len(a.type) = 1 /\ a.type[1] \in AssetType
    /\ Len(a.shares) = 1

ExtractedAsset(a) ==
    [name |-> a.name[1], type |-> a.type[1], ticker |-> a.ticker,
     shares |-> a.shares[1],
     currency |-> IF a.currency = <<>> THEN "USD" ELSE a.currency[1],
     market |-> a.market, current_price |-> a.current_price,
     total_value |-> a.total_value,
     confidence |-> IF a.confidence = <<>> THEN AssetConfidenceDefault
                    ELSE a.confidence[1]]

\* SourceInfo(): every field None.
SourceInfo == [broker |-> <<>>, statement_date |-> <<>>, account_type |-> <<>>]
Schwab == [broker |-> <<"Schwab">>, statement_date |-> <<"2024-01-15">>,
           account_type |-> <<"Individual">>]

\* What the text-generation step can come to:
\*   call_error   chain.ainvoke raises
\*   no_json      extract_json_from_response raises ValueError
\*   not_mapping  the recovered JSON value is no object: parsed.get raises
\*   mapping      a JSON object; fields_ok is FALSE when source_info, warnings
\*                or confidence holds a value of the wrong type
Reply(kind, assets, source_info, warnings, confidence, fields_ok) ==
    [kind |-> kind, assets |-> assets, source_info |-> source_info,
     warnings |-> warnings, confidence |-> confidence, fields_ok |-> fields_ok]
NoMapping(kind) == Reply(kind, <<>>, SourceInfo, <<>>, <<>>, TRUE)
Replies ==
    {NoMapping("call_error"), NoMapping("no_json"), NoMapping("not_mapping")}
    \cup {Reply("mapping", as, si, w, c, ok) :
            as \in SeqsUpTo(Candidates, MaxAssets),
            si \in {SourceInfo, Schwab},
            w \in {<<>>, <<"Some text was unclear">>},
            c \in {<<>>, <<-20>>, <<0>>, <<60>>, <<90>>, <<130>>},
            ok \in BOOLEAN}
Envs == [llm_constructs : BOOLEAN, reply : Replies]

TruncationWarning == "Document was truncated due to size. Some assets may be missing."
EmptyWarning == "Document appears to be empty or contains very little text"
FailureWarning == "Analysis failed"

ImportResponse(assets, source_info, warnings, confidence) ==
    [assets |-> assets, source_info |-> source_info, warnings |-> warnings,
     confidence |-> confidence]

Returned(response, trace, handed) ==
    [pc |-> "returned", response |-> response, trace |-> trace, handed |-> handed]
Raised(exception, trace, handed) ==
    [pc |-> "raised", response |-> [exception |-> exception], trace |-> trace,
     handed |-> handed]

\* response.confidence = min(response.confidence, 0.7)
CapConfidence_none(confidence) == confidence
CapConfidence(confidence) == Min(confidence, ConfidenceCap)

\* The body of the try block, lines 246-261: the reply is recovered and the
\* response built in one ImportResponse(...) expression, so the first
\* candidate or field that fails validation raises out of all of it.
BuildResponse(reply, truncated) ==
    IF reply.kind # "mapping" THEN [error |-> reply.kind]
    ELSE IF \E i \in 1 .. Len(reply.assets) : ~ValidAsset(reply.assets[i])
         THEN [error |-> "ValidationError"]
    ELSE IF ~reply.fields_ok THEN [error |-> "ValidationError"]
    ELSE LET assets == [i \in 1 .. Len(reply.assets) |-> ExtractedAsset(reply.assets[i])]
             confidence == IF reply.confidence = <<>> THEN ConfidenceDefault
                           ELSE reply.confidence[1]
         IN  [error |-> "",
              response |->
                IF truncated
                THEN ImportResponse(assets, reply.source_info,
                                    Append(reply.warnings, TruncationWarning),
                                    CapConfidence(confidence))
                ELSE ImportResponse(assets, reply.source_info, reply.warnings,
                                    confidence)]

analyze_import(doc, env) ==
    LET ex == extract_text(doc)
        text == ex.text
        handed == HandedLength(text)
        t1 == <<"extract_text">>
        t2 == Append(t1, "ChatOpenAI")
        t3 == Append(t2, "ainvoke")
        t4 == Append(t3, "extract_json_from_response")
        built == BuildResponse(env.reply, Truncated(text))
    IN  IF ex.error # ""
        THEN Returned(ImportResponse(<<>>, SourceInfo, <<ex.error>>, 0), t1, -1)
        ELSE IF EmptyDocument(text)
        THEN Returned(ImportResponse(<<>>, SourceInfo, <<EmptyWarning>>, 0), t1, -1)
        ELSE IF ~env.llm_constructs
        THEN Raised("ChatOpenAI construction error", t2, -1)
        ELSE IF env.reply.kind = "call_error"
        THEN Returned(ImportResponse(<<>>, SourceInfo, <<FailureWarning>>, 0), t3, handed)
        ELSE IF built.error # ""
        THEN Returned(ImportResponse(<<>>, SourceInfo, <<FailureWarning>>, 0), t4, handed)
        ELSE Returned(built.response, Append(t4, "ImportResponse"), handed)

\* One call of analyze_import; a behaviour of the model is one call.
AnalyzeImport ==
    /\ imp_pc = "idle"
    /\ \E doc \in Documents, env \in Envs :
        LET r == analyze_import(doc, env)
        IN  /\ imp_request' = doc
            /\ imp_env' = env
            /\ imp_pc' = r.pc
            /\ imp_response' = r.response
            /\ imp_trace' = r.trace
            /\ imp_llm_input' = r.handed
            /\ UNCHANGED <<debt_vars, rec_vars, csv_vars, run_vars, stock_vars>>

-----------------------------------------------------------------------------
(* agents/import_agent.py and agents/runway_agent.py:                       *)
(* extract_json_from_response (the two copies are the same code).           *)
(* A reply text is a sequence of lexemes followed by pad characters of      *)
(* prose:                                                                   *)
(*   "{" "}"   braces            "member"  "a":1                            *)
(*   "fence"   ```               "null"    null                             *)
(*   "json"    the tag json      "deep"    [[[[... nested beyond the        *)
(*   "ws"      white space                 recursion limit of json.loads    *)
(*   "prose"   any other word                                               *)

MaxTokens == 4
DeepChars == 1000

ExcerptLimit == 500

Tokens == {"{", "}", "member", "null", "deep", "fence", "json", "ws", "prose"}

TokenChars(tok) ==
    CASE tok = "fence" -> 3
      [] tok = "json" -> 4
      [] tok = "member" -> 5
      [] tok = "deep" -> DeepChars
      [] OTHER -> 1

Text(tokens, pad) == [tokens |-> tokens, pad |-> pad]

RECURSIVE TokensLen(_)
TokensLen(tokens) ==
    IF tokens = <<>> THEN 0 ELSE TokenChars(Head(tokens)) + TokensLen(Tail(tokens))

\* len(text)
TextLen(text) == TokensLen(text.tokens) + text.pad

\* Replies seen from a model: the fenced block of the prompt's example inside
\* prose, a fenced block followed by a brace pair, a fenced block after
\* another fenced block, and one after a stray fence.
FencedInProse ==
    <<"prose", "ws", "fence", "json", "ws", "{", "member", "}", "ws", "fence", "ws", "prose">>
FenceThenBrace ==
    <<"fence", "json", "ws", "{", "member", "}", "fence", "ws", "{", "}">>
TwoFences ==
    <<"fence", "prose", "fence", "ws", "fence", "json", "ws", "{", "member", "}", "fence",
      "ws", "{", "prose", "}">>
StrayFence == <<"fence", "ws", "{", "ws", "fence", "{", "member", "}", "fence">>
SampleReplies == {FencedInProse, FenceThenBrace, TwoFences, StrayFence}

Pads == {0, ExcerptLimit - 1, ExcerptLimit}
ReplyTexts ==
    {Text(tokens, pad) : tokens \in SeqsUpTo(Tokens, MaxTokens) \cup SampleReplies,
                         pad \in Pads}

NotWs(tok) == tok # "ws"

Parsed(value) == [kind |-> "ok", value |-> value]
JSONDecodeError == [kind |-> "JSONDecodeError", value |-> <<>>]
RecursionError == [kind |-> "RecursionError", value |-> <<>>]

\* json.loads(text): white space around lexemes is skipped; null, {} and
\* {"a":1} are the documents of the model; a leading deep nesting raises
\* RecursionError, which is no JSONDecodeError; anything else, trailing prose
\* included, raises JSONDecodeError.
json_loads(tokens, pad) ==
    LET core == SelectSeq(tokens, NotWs)
    IN  IF core = <<>> THEN JSONDecodeError
        ELSE IF core[1] = "deep" THEN RecursionError
        ELSE IF pad > 0 THEN JSONDecodeError
        ELSE IF core \in {<<"null">>, <<"{", "}">>, <<"{", "member", "}">>}
             THEN Parsed(core)
        ELSE JSONDecodeError

Positions(tokens, tok) == {i \in 1 .. Len(tokens) : tokens[i] = tok}

SetMin(S) == CHOOSE x \in S : \A y \in S : x <= y
SetMax(S) == CHOOSE x \in S : \A y \in S : x >= y

RECURSIVE LStrip(_)
LStrip(tokens) ==
    IF tokens # <<>> /\ Head(tokens) = "ws" THEN LStrip(Tail(tokens)) ELSE tokens

\* re.search(r'```(?:json)?\s*([\s\S]*?)```', text): the leftmost fence that
\* has a fence after it, up to the next fence; group(1) is what lies between,
\* less a leading tag and the white space after it.
FenceSearch(tokens) ==
    LET fences == Positions(tokens, "fence")
    IN  IF Cardinality(fences) < 2 THEN [found |-> FALSE, group |-> <<>>]
        ELSE LET open == SetMin(fences)
                 close == SetMin(fences \ {open})
                 inner == SubSeq(tokens, open + 1, close - 1)
                 untagged == IF inner # <<>> /\ Head(inner) = "json"
                             THEN Tail(inner) ELSE inner
             IN  [found |-> TRUE, group |-> LStrip(untagged)]

\* re.search(r'\{[\s\S]*\}', text): from the first "{" to the last "}" after it.
BraceSearch(tokens) ==
    LET opens == Positions(tokens, "{")
        closes == Positions(tokens, "}")
    IN  IF opens = {} \/ closes = {} \/ SetMax(closes) < SetMin(opens)
        THEN [found |-> FALSE, group |-> <<>>]
        ELSE [found |-> TRUE, group |-> SubSeq(tokens, SetMin(opens), SetMax(closes))]

\* text[:500], as the number of characters of the text it holds
Excerpt_whole(text) == TextLen(text)
Excerpt(text) == Min(TextLen(text), ExcerptLimit)

RecoveredValue(value) == [status |-> "returned", value |-> value]
RecoveryError(text) ==
    [status |-> "raised", exception |-> "ValueError", excerpt |-> Excerpt(text)]
Propagated(exception) ==
    [status |-> "raised", exception |-> exception, excerpt |-> 0]

\* The brace strategy, lines 179-187.
TryBraces(text) ==
    LET m == BraceSearch(text.tokens)
        p == json_loads(m.group, 0)
    IN  IF ~m.found THEN RecoveryError(text)
        ELSE IF p.kind = "ok" THEN RecoveredValue(p.value)
        ELSE IF p.kind = "JSONDecodeError" THEN RecoveryError(text)
        ELSE Propagated(p.kind)

\* The fenced-block strategy, lines 171-177.
TryFence(text) ==
    LET m == FenceSearch(text.tokens)
        p == json_loads(m.group, 0)
    IN  IF ~m.found THEN TryBraces(text)
        ELSE IF p.kind = "ok" THEN RecoveredValue(p.value)
        ELSE IF p.kind = "JSONDecodeError" THEN TryBraces(text)
        ELSE Propagated(p.kind)

extract_json_from_response(text) ==
    LET p == json_loads(text.tokens, text.pad)
    IN  IF p.kind = "ok" THEN RecoveredValue(p.value)
        ELSE IF p.kind = "JSONDecodeError" THEN TryFence(text)
        ELSE Propagated(p.kind)

\* One call of extract_json_from_response.
ExtractJsonFromResponse ==
    /\ rec_pc = "idle"
    /\ \E text \in ReplyTexts :
        LET r == extract_json_from_response(text)
        IN  /\ rec_text' = text
            /\ rec_result' = r
            /\ rec_pc' = r.status
    /\ UNCHANGED <<debt_vars, imp_vars, csv_vars, run_vars, stock_vars>>

-----------------------------------------------------------------------------
(* agents/import_agent.py: extract_text_from_csv.                           *)
(* A content is a sequence of bytes; a decoded text is the sequence of its  *)
(* code points.  The bytes of the model:                                    *)
(*   97 "a", 44 ",", 10 "\n"   ASCII                                        *)
(*   195, 169                  together the UTF-8 form of U+00E9; each      *)
(*                             alone is invalid UTF-8; both are letters of  *)
(*                             Latin-1 and Windows-1252                     *)
(*   129                       invalid UTF-8, undefined in Windows-1252,    *)
(*                             a control character of Latin-1               *)
(* Whether pandas can lay the content out as a table is an input of the     *)
(* call; an empty content never is one (EmptyDataError).                    *)

MaxBytes == 4

ByteValues == {97, 44, 10, 195, 169, 129}
Contents == SeqsUpTo(ByteValues, MaxBytes)

Encodings_latin_first == <<"latin1", "utf-8", "cp1252">>
Encodings == <<"utf-8", "latin1", "cp1252">>

Decoded(chars) == [ok |-> TRUE, chars |-> chars]
UnicodeDecodeError == [ok |-> FALSE, chars |-> <<>>]

\* bytes.decode('utf-8', errors): strict stops at the first invalid byte,
\* ignore leaves the invalid bytes out.
RECURSIVE DecodeUtf8(_, _)
DecodeUtf8(content, errors) ==
    IF content = <<>> THEN Decoded(<<>>)
    ELSE LET b == Head(content)
             pair == b = 195 /\ Len(content) >= 2 /\ content[2] = 169
             rest == DecodeUtf8(IF pair THEN Tail(Tail(content)) ELSE Tail(content), errors)
         IN  IF b < 128
             THEN IF rest.ok THEN Decoded(<<b>> \o rest.chars) ELSE UnicodeDecodeError
             ELSE IF pair
             THEN IF rest.ok THEN Decoded(<<233>> \o rest.chars) ELSE UnicodeDecodeError
             ELSE IF errors = "ignore" THEN rest
             ELSE UnicodeDecodeError

\* content.decode(encoding): Latin-1 maps every byte to its code point;
\* Windows-1252 has no character for 129.
Decode(content, encoding) ==
    CASE encoding = "utf-8" -> DecodeUtf8(content, "strict")
      [] encoding = "latin1" -> Decoded(content)
      [] encoding = "cp1252" ->
            IF \E i \in 1 .. Len(content) : content[i] = 129
            THEN UnicodeDecodeError ELSE Decoded(content)

\* pd.read_csv(io.BytesIO(content), encoding=encoding) followed by
\* df.to_string(): the table as text, UnicodeDecodeError, or another error.
read_csv(content, encoding, tabular) ==
    IF ~tabular THEN "ParserError"
    ELSE IF ~Decode(content, encoding).ok THEN "UnicodeDecodeError"
    ELSE "DataFrame"

CsvText(form, encoding, chars) ==
    [status |-> "returned", form |-> form, encoding |-> encoding, chars |-> chars]

\* The for loop of lines 107-120 from the i-th encoding on, and the last
\* resort of line 123.
RECURSIVE TryEncodings(_, _, _)
TryEncodings(content, tabular, i) ==
    IF i > Len(Encodings)
    THEN CsvText("best_effort", "utf-8", DecodeUtf8(content, "ignore").chars)
    ELSE LET encoding == Encodings[i]
             df == read_csv(content, encoding, tabular)
             raw == Decode(content, encoding)
         IN  IF df = "DataFrame" THEN CsvText("table", encoding, raw.chars)
             ELSE IF df = "UnicodeDecodeError" THEN TryEncodings(content, tabular, i + 1)
             ELSE IF raw.ok THEN CsvText("raw", encoding, raw.chars)
             ELSE TryEncodings(content, tabular, i + 1)

extract_text_from_csv(content, tabular) == TryEncodings(content, tabular, 1)

\* One call of extract_text_from_csv.
ExtractTextFromCsv ==
    /\ csv_pc = "idle"
    /\ \E content \in Contents, tabular \in BOOLEAN :
        /\ content = <<>> => ~tabular
        /\ LET r == extract_text_from_csv(content, tabular)
           IN  /\ csv_content' = [bytes |-> content, tabular |-> tabular]
               /\ csv_result' = r
               /\ csv_pc' = r.status
    /\ UNCHANGED <<debt_vars, imp_vars, rec_vars, run_vars, stock_vars>>

-----------------------------------------------------------------------------
(* agents/runway_agent.py: calculate_runway; routes/runway.py:              *)
(* runway_projection; schemas/request.py, schemas/response.py.              *)
(* The projection is the reply of one model call: calculate_runway formats  *)
(* the request, calls the model, recovers a JSON value from the reply and   *)
(* validates it as a RunwayResponse.  Amounts are whole currency units.     *)

Horizon == 50
CriticalYears == 10

RunwayStatus == {"infinite", "finite", "critical"}

Asset(type, balance) == [type |-> type, balance |-> balance]
Debt(current_balance, monthly_payment) ==
    [current_balance |-> current_balance, monthly_payment |-> monthly_payment]
Mortgage == Debt(10, 1)

LiquidValues == {0, 6, 20}
RunwayRequest(cash, real_estate, debts, expenses, income) ==
    [assets |-> IF real_estate = 0 THEN <<Asset("cash", cash)>>
                ELSE <<Asset("cash", cash), Asset("real_estate", real_estate)>>,
     debts |-> debts,
     annual_expenses |-> expenses,
     annual_passive_income |-> income]
RunwayRequests ==
    {RunwayRequest(cash, real_estate, debts, expenses, income) :
        cash \in LiquidValues, real_estate \in {0, 100},
        debts \in {<<>>, <<Mortgage>>}, expenses \in {0, 2}, income \in {0, 1}}

RECURSIVE SumOf(_, _)
SumOf(items, field) ==
    IF items = <<>> THEN 0 ELSE Head(items)[field] + SumOf(Tail(items), field)

IsRealEstate(a) == a.type = "real_estate"

\* format_request_for_agent: the totals written into the prompt.
format_request_for_agent(request) ==
    [total_assets |-> SumOf(request.assets, "balance"),
     liquid_assets |-> SumOf(request.assets, "balance")
                         - SumOf(SelectSeq(request.assets, IsRealEstate), "balance"),
     total_debts |-> SumOf(request.debts, "current_balance"),
     passive_income |-> request.annual_passive_income,
     living_expenses |-> request.annual_expenses]

YearProjection(year, assets, debts) == [year |-> year, assets |-> assets, debts |-> debts]
Projections ==
    {<<>>}
    \cup {<<YearProjection(0, 20, 10), YearProjection(year, assets, debts)>> :
            year \in {3, CriticalYears, Horizon}, assets \in {-1, 0, 1}, debts \in {-1, 0}}

\* What the model call and the recovery of its reply can come to:
\*   construct_error  ChatOpenAI(...) or the prompt raises
\*   call_error       chain.ainvoke raises
\*   no_json          extract_json_from_response raises ValueError
\*   recursion        json.loads raises RecursionError inside it
\*   not_mapping      the recovered JSON value is no object
\*   mapping          a JSON object; zero_rates says that its assumptions are
\*                    inflation 0 and growth 0, shape_ok that every field
\*                    other than runway_status has the declared type
RunwayReply(kind, projection, runway_years, runway_status, zero_rates, shape_ok) ==
    [kind |-> kind, projection |-> projection, runway_years |-> runway_years,
     runway_status |-> runway_status, zero_rates |-> zero_rates, shape_ok |-> shape_ok]
NoRunway(kind) == RunwayReply(kind, <<>>, 0, "finite", FALSE, TRUE)
RunwayReplies ==
    {NoRunway(kind) :
        kind \in {"construct_error", "call_error", "no_json", "recursion", "not_mapping"}}
    \cup {RunwayReply("mapping", projection, years, status, zero, ok) :
            projection \in Projections,
            years \in {-1, 3, CriticalYears, Horizon},
            status \in RunwayStatus \cup {"unknown"},
            zero \in BOOLEAN,
            ok \in BOOLEAN}

\* RunwayResponse(**parsed): the fields have their declared types and
\* runway_status is one of the three literals; the numbers are not bounded.
ValidRunway_lenient(reply) == TRUE
ValidRunway(reply) == reply.shape_ok /\ reply.runway_status \in RunwayStatus

RunwayResponse(reply) ==
    [projection |-> reply.projection, runway_years |-> reply.runway_years,
     runway_status |-> reply.runway_status, zero_rates |-> reply.zero_rates]

RunwayReturned(response) == [status |-> "returned", response |-> response]
RunwayRaised(exception) == [status |-> "raised", exception |-> exception]

calculate_runway(request, reply) ==
    CASE reply.kind = "construct_error" -> RunwayRaised("Exception")
      [] reply.kind = "call_error" -> RunwayRaised("Exception")
      [] reply.kind = "no_json" -> RunwayRaised("ValueError")
      [] reply.kind = "recursion" -> RunwayRaised("RecursionError")
      [] reply.kind = "not_mapping" -> RunwayRaised("AttributeError")
      [] reply.kind = "mapping" ->
            IF ValidRunway(reply) THEN RunwayReturned(RunwayResponse(reply))
            ELSE RunwayRaised("ValidationError")

\* except ValueError: pydantic's ValidationError is a ValueError.
IsValueError(exception) == exception \in {"ValueError", "ValidationError"}

\* runway_projection: the response, or HTTPException 400 / 500.
runway_projection(result) ==
    IF result.status = "returned" THEN [code |-> 200, body |-> <<result.response>>]
    ELSE IF IsValueError(result.exception) THEN [code |-> 400, body |-> <<>>]
    ELSE [code |-> 500, body |-> <<>>]

\* One request to the runway route.
RunwayProjection ==
    /\ run_pc = "idle"
    /\ \E request \in RunwayRequests, reply \in RunwayReplies :
        LET result == calculate_runway(request, reply)
        IN  /\ run_request' = request
            /\ run_env' = reply
            /\ run_llm_input' =
                  IF reply.kind = "construct_error" THEN <<>>
                  ELSE <<format_request_for_agent(request)>>
            /\ run_result' = result
            /\ run_pc' = result.status
            /\ run_http' = runway_projection(result)
    /\ UNCHANGED <<debt_vars, imp_vars, rec_vars, csv_vars, stock_vars>>

-----------------------------------------------------------------------------
(* tools/stock_growth.py: get_stock_growth.                                 *)
(* The price history is what the lookup came to: an exception, or a frame   *)
(* of points rows whose first and last rows lie span days apart and hold    *)
(* the prices start_price and end_price (without a Close column when        *)
(* has_close is FALSE).  today is the proleptic ordinal of the day of the   *)
(* call (datetime.now()); the dates of the result are days from that day.   *)

MaxPoints == 3
MaxPrice == 2

CentiDaysPerYear == 36525
DaysPerYear == 365

Tickers == {"VTI", "INVALIDTICKER123"}
YearsValues == {1, 5, 2027}
Todays == {739557, 739922}
SpanValues == {0, 1, 182, 183, 365, 1826}

History(kind, points, span, start_price, end_price, has_close) ==
    [kind |-> kind, points |-> points, span |-> span, start_price |-> start_price,
     end_price |-> end_price, has_close |-> has_close]
LookupFailed == History("raises", 0, 0, 0, 0, TRUE)
Histories ==
    {LookupFailed}
    \cup {History("frame", points, span, start_price, end_price, has_close) :
            points \in 0 .. MaxPoints, span \in SpanValues,
            start_price \in 0 .. MaxPrice, end_price \in 0 .. MaxPrice,
            has_close \in BOOLEAN}

\* end_date - timedelta(days=years * 365): OverflowError when the start date
\* falls before the first day of the year 1.
DateOutOfRange(today, years) == today - years * DaysPerYear < 1

\* if hist.empty or len(hist) < 2
TooFewPoints(hist) == hist.points = 0 \/ hist.points < 2

\* the days between the first and the last row: none with a single row
RealizedSpan(hist) == IF hist.points < 2 THEN 0 ELSE hist.span

\* actual_years = days / 365.25; if actual_years < 0.5
SpanTooShort_never(days) == FALSE
SpanTooShort(days) == 2 * 100 * days < CentiDaysPerYear

StockError(ticker, error, suggestion) ==
    [ticker |-> ticker, error |-> error, suggestion |-> suggestion]

\* (end_price / start_price) ** (1 / actual_years) - 1 on numpy floats, kept
\* as the operands of the formula; a start price of 0 gives inf or nan where
\* Python floats would raise.
Annualized(hist) ==
    [ratio |-> IF hist.start_price = 0 THEN <<"inf or nan">>
               ELSE <<hist.end_price, hist.start_price>>,
     days |-> RealizedSpan(hist)]

StockGrowth(ticker, hist) ==
    [ticker |-> ticker,
     annualized_growth |-> Annualized(hist),
     years_analyzed |-> RoundTo(RealizedSpan(hist) * 100 * 10, CentiDaysPerYear, 0),
     start_price |-> hist.start_price,
     end_price |-> hist.end_price,
     start_date |-> 0 - RealizedSpan(hist),
     end_date |-> 0]

get_stock_growth(ticker, years, today, hist) ==
    IF DateOutOfRange(today, years)
    THEN StockError(ticker, "date value out of range",
                    "Use a conservative estimate (5-7% for diversified stock funds)")
    ELSE IF hist.kind = "raises"
    THEN StockError(ticker, "lookup error",
                    "Use a conservative estimate (5-7% for diversified stock funds)")
    ELSE IF TooFewPoints(hist)
    THEN StockError(ticker, "Insufficient historical data",
                    "Use a conservative estimate (5-7% for stocks, 2-3% for bonds)")
    ELSE IF ~hist.has_close
    THEN StockError(ticker, "'Close'",
                    "Use a conservative estimate (5-7% for diversified stock funds)")
    ELSE IF SpanTooShort(RealizedSpan(hist))
    THEN StockError(ticker, "Less than 6 months of data available",
                    "Use a conservative estimate")
    ELSE StockGrowth(ticker, hist)

\* One call of get_stock_growth.
GetStockGrowth ==
    /\ stock_pc = "idle"
    /\ \E ticker \in Tickers, years \in YearsValues, today \in Todays, hist \in Histories :
        /\ stock_args' = [ticker |-> ticker, years |-> years]
        /\ stock_env' = [today |-> today, hist |-> hist]
        /\ stock_result' = get_stock_growth(ticker, years, today, hist)
        /\ stock_pc' = "returned"
    /\ UNCHANGED <<debt_vars, imp_vars, rec_vars, csv_vars, run_vars>>

-----------------------------------------------------------------------------
Init ==
    /\ debt_pc = "idle"
    /\ debt_args = [balance |-> 0, annual_rate |-> 0, monthly_payment |-> 0]
    /\ debt_fp = [interest |-> 0, quotient |-> 0, round |-> 0]
    /\ debt_result = [status |-> "none"]
    /\ imp_pc = "idle"
    /\ imp_request = BlankDocument
    /\ imp_env = [llm_constructs |-> TRUE, reply |-> NoMapping("call_error")]
    /\ imp_trace = <<>>
    /\ imp_llm_input = -1
    /\ imp_response = [status |-> "none"]
    /\ rec_pc = "idle"
    /\ rec_text = Text(<<>>, 0)
    /\ rec_result = [status |-> "none"]
    /\ csv_pc = "idle"
    /\ csv_content = [bytes |-> <<>>, tabular |-> FALSE]
    /\ csv_result = [status |-> "none"]
    /\ run_pc = "idle"
    /\ run_request = RunwayRequest(0, 0, <<>>, 0, 0)
    /\ run_env = NoRunway("call_error")
    /\ run_llm_input = <<>>
    /\ run_result = [status |-> "none"]
    /\ run_http = [code |-> 0, body |-> <<>>]
    /\ stock_pc = "idle"
    /\ stock_args = [ticker |-> "VTI", years |-> 5]
    /\ stock_env = [today |-> 739557, hist |-> LookupFailed]
    /\ stock_result = [status |-> "none"]

NextDebt == CalculateDebtPayoff

SpecDebt == Init /\ [][NextDebt]_vars

NextImport == AnalyzeImport

SpecImport == Init /\ [][NextImport]_vars

NextRecover == ExtractJsonFromResponse

SpecRecover == Init /\ [][NextRecover]_vars

NextCsv == ExtractTextFromCsv

SpecCsv == Init /\ [][NextCsv]_vars

NextRunway == RunwayProjection

SpecRunway == Init /\ [][NextRunway]_vars

NextStock == GetStockGrowth

SpecStock == Init /\ [][NextStock]_vars

-----------------------------------------------------------------------------
(* Properties of calculate_debt_payoff, checked under SpecDebt. *)

DebtCalled == debt_pc # "idle"
DebtReturned == debt_pc = "returned"
DebtHas(key) == key \in DOMAIN debt_result

\* payment <= balance * (annual_rate / 12), in exact arithmetic
WithinInterest ==
    \/ debt_args.balance = Inf
    \/ /\ debt_args.annual_rate # TinyRate
       /\ debt_args.monthly_payment * RateDen <= debt_args.balance * debt_args.annual_rate

\* |cents - num / (den * UnitsPerCent)| <= 1/2: cents is num / den units to the cent
ToTheCent(cents, num, den) ==
    LET d == den * UnitsPerCent
        diff == cents * d - num
    IN  2 * diff <= d /\ 2 * diff >= -d

\* The balance after n months of balance <- balance * (1 + rate / 12) - payment,
\* scaled by RateDen^n; b and m are the balance and the payment so scaled.
RECURSIVE Amortize(_, _, _, _)
Amortize(b, m, g, n) ==
    IF n = 0 THEN b ELSE Amortize(b * g - m * RateDen, m * RateDen, g, n - 1)

\* n months of payments bring the balance to <= 0 (a rate below 2^-53 leaves
\* a positive residue of interest on a balance that the payments just meet)
PaidOffAfter(n) ==
    IF debt_args.annual_rate = TinyRate
    THEN debt_args.balance - n * debt_args.monthly_payment < 0
    ELSE Amortize(debt_args.balance, debt_args.monthly_payment,
                  RateDen + debt_args.annual_rate, n) <= 0

\* C1: with balance <= 0 the call returns months_remaining = 0 and
\* total_interest = 0 and no error, whatever the rate and the payment are.
C1_PaidOffBalance ==
    (DebtCalled /\ debt_args.balance <= 0) =>
        /\ DebtReturned
        /\ ~DebtHas("error")
        /\ debt_result.months_remaining = 0
        /\ debt_result.total_interest = 0

C1_Witness ==
    /\ DebtReturned
    /\ debt_args.balance <= 0
    /\ debt_args.monthly_payment <= 0
    /\ debt_args.annual_rate <= 0
    /\ debt_result.months_remaining = 0

\* C2: with balance > 0, rate > 0, payment > 0 and payment no greater than the
\* first month's interest (equality included) the call returns the underwater
\* result: months_remaining = -1, no payoff date, and the shortfall
\* interest - payment (to the cent it is reported in).
C2_Underwater ==
    (/\ DebtCalled
     /\ debt_args.balance > 0
     /\ debt_args.annual_rate > 0
     /\ debt_args.monthly_payment > 0
     /\ WithinInterest) =>
        /\ DebtReturned
        /\ DebtHas("shortfall")
        /\ ~DebtHas("payoff_year")
        /\ debt_result.months_remaining = -1
        /\ IF debt_args.balance = Inf THEN debt_result.shortfall = Inf
           ELSE ToTheCent(debt_result.shortfall,
                          debt_args.balance * debt_args.annual_rate
                            - debt_args.monthly_payment * RateDen,
                          RateDen)

\* C3: with balance > 0, payment > 0 and rate <= 0 the call returns
\* months_remaining = ceil(balance / payment), the least n with
\* n * payment >= balance, and total_interest = 0.
C3_ZeroInterest ==
    (/\ DebtCalled
     /\ debt_args.balance > 0
     /\ debt_args.monthly_payment > 0
     /\ debt_args.annual_rate <= 0) =>
        /\ DebtReturned
        /\ ~DebtHas("error")
        /\ debt_result.total_interest = 0
        /\ debt_result.months_remaining * debt_args.monthly_payment >= debt_args.balance
        /\ (debt_result.months_remaining - 1) * debt_args.monthly_payment < debt_args.balance

\* C4: with balance > 0, rate > 0 and payment above the first month's interest
\* the call returns months_remaining >= 1, the least number of months of
\* balance <- balance * (1 + rate / 12) - payment that bring the balance to
\* <= 0, and total_interest = months_remaining * payment - balance.
C4_Amortization ==
    (/\ DebtCalled
     /\ debt_args.balance > 0
     /\ debt_args.balance # Inf
     /\ debt_args.annual_rate > 0
     /\ debt_args.monthly_payment > 0
     /\ ~WithinInterest) =>
        /\ DebtReturned
        /\ ~DebtHas("error")
        /\ debt_result.months_remaining >= 1
        /\ PaidOffAfter(debt_result.months_remaining)
        /\ ~PaidOffAfter(debt_result.months_remaining - 1)
        /\ ToTheCent(debt_result.total_interest,
                     debt_result.months_remaining * debt_args.monthly_payment
                       - debt_args.balance,
                     1)

\* C5: with balance > 0 and payment <= 0 the call returns the invalid-input
\* result: an error, months_remaining = -1, and neither a total interest nor
\* a payoff date.
C5_InvalidPayment ==
    (DebtCalled /\ debt_args.balance > 0 /\ debt_args.monthly_payment <= 0) =>
        /\ DebtReturned
        /\ DebtHas("error")
        /\ debt_result.months_remaining = -1
        /\ ~DebtHas("total_interest")
        /\ ~DebtHas("payoff_year")
        /\ ~DebtHas("payoff_month")

C5_Witness ==
    /\ DebtReturned
    /\ debt_args.balance > 0
    /\ debt_args.monthly_payment <= 0
    /\ debt_args.annual_rate > 0
    /\ DebtHas("error")

\* C6: every call returns and none raises; a result either counts months
\* (months_remaining >= 0, no error) or is an error with months_remaining = -1;
\* a numerical failure of the closed form is such an error.
C6_TotalAndTagged ==
    DebtCalled =>
        /\ DebtReturned
        /\ \/ ~DebtHas("error") /\ debt_result.months_remaining >= 0
           \/ DebtHas("error") /\ debt_result.months_remaining = -1
        /\ (debt_args.balance > 0 /\ debt_args.monthly_payment > 0
              /\ debt_args.annual_rate = TinyRate /\ debt_args.balance # Inf)
             => DebtHas("error")

\* the result reports a months count: already paid or on track
ReportsMonths == DebtReturned /\ ~DebtHas("error")

\* C22: every result that reports a months count (already paid, zero-interest
\* or interest-bearing on track) carries a payoff date derived from the base
\* year and months_remaining: payoff_year = base year + months_remaining div
\* 12 and payoff_month = months_remaining mod 12, so that (payoff_year - base
\* year) * 12 + payoff_month = months_remaining with payoff_month in 0 .. 11.
C22_PayoffDate ==
    ReportsMonths =>
        /\ DebtHas("payoff_year")
        /\ DebtHas("payoff_month")
        /\ debt_result.payoff_year =
              current_year + (debt_result.months_remaining \div 12)
        /\ debt_result.payoff_month = debt_result.months_remaining % 12
        /\ (debt_result.payoff_year - current_year) * 12 + debt_result.payoff_month
              = debt_result.months_remaining
        /\ debt_result.payoff_month \in 0 .. 11

-----------------------------------------------------------------------------
(* Properties of analyze_import, checked under SpecImport. *)

ImpCalled == imp_pc # "idle"
ImpReturned == imp_pc = "returned"
InTrace(step) == \E i \in 1 .. Len(imp_trace) : imp_trace[i] = step
HasWarning(w) == \E i \in 1 .. Len(imp_response.warnings) : imp_response.warnings[i] = w
\* extract_text returned a text for the request
TextExtracted == extract_text(imp_request).error = ""
UpstreamConfidence ==
    IF imp_env.reply.confidence = <<>> THEN ConfidenceDefault
    ELSE imp_env.reply.confidence[1]

\* C7: a document with fewer than 50 characters of usable text gets a result
\* with no holdings, an empty SourceInfo, one warning and confidence 0.0, and
\* neither the model call nor JSON recovery happens.
C7_EmptyShortCircuit ==
    (ImpCalled /\ TextExtracted /\ imp_request.text.usable < MinChars) =>
        /\ ImpReturned
        /\ imp_response.assets = <<>>
        /\ imp_response.source_info = SourceInfo
        /\ Len(imp_response.warnings) = 1
        /\ imp_response.confidence = 0
        /\ ~InTrace("ainvoke")
        /\ ~InTrace("extract_json_from_response")

C7_Witness ==
    /\ ImpReturned
    /\ TextExtracted
    /\ imp_request.text.len > max_chars
    /\ imp_request.text.usable = MinChars - 1
    /\ imp_env.llm_constructs
    /\ imp_env.reply.kind = "mapping"
    /\ imp_response.confidence = 0

C9_NeverPropagates ==
    ImpCalled =>
        /\ ImpReturned
        /\ ~InTrace("ImportResponse") =>
              /\ Len(imp_response.warnings) >= 1
              /\ imp_response.confidence >= 0
              /\ imp_response.confidence <= ConfidenceCap

\* The candidates of the reply that have the Holding shape as far as name and
\* type go, and those that do not.
WellTyped(a) == Len(a.name) = 1 /\ Len(a.type) = 1 /\ a.type[1] \in AssetType
IllTyped(a) == ~WellTyped(a)

\* C10: when the recovered mapping holds a candidate with a missing or invalid
\* type, that candidate alone is dropped with a warning and every valid
\* candidate of the mapping is returned as a holding.
C10_InvalidCandidateDropped ==
    (/\ ImpReturned
     /\ InTrace("extract_json_from_response")
     /\ imp_env.reply.kind = "mapping"
     /\ imp_env.reply.fields_ok
     /\ \A i \in 1 .. Len(imp_env.reply.assets) :
            WellTyped(imp_env.reply.assets[i]) => ValidAsset(imp_env.reply.assets[i])
     /\ \E i \in 1 .. Len(imp_env.reply.assets) : WellTyped(imp_env.reply.assets[i])
     /\ \E i \in 1 .. Len(imp_env.reply.assets) : IllTyped(imp_env.reply.assets[i])) =>
        /\ Len(imp_response.assets) = Len(SelectSeq(imp_env.reply.assets, WellTyped))
        /\ \A i \in 1 .. Len(imp_response.assets) :
              imp_response.assets[i].name = SelectSeq(imp_env.reply.assets, WellTyped)[i].name[1]
        /\ Len(imp_response.warnings) >=
              Len(imp_env.reply.warnings) + Len(SelectSeq(imp_env.reply.assets, IllTyped))

\* A candidate that lacks only its shares, with both current_price and
\* total_value present.
SharesDerivable(a) ==
    /\ WellTyped(a)
    /\ a.shares = <<>>
    /\ Len(a.current_price) = 1 /\ Len(a.total_value) = 1

\* C11: a candidate whose shares are absent while total_value and
\* current_price are present comes back as a holding whose shares are
\* total_value / current_price.
C11_SharesDerived ==
    (/\ ImpReturned
     /\ InTrace("extract_json_from_response")
     /\ imp_env.reply.kind = "mapping"
     /\ imp_env.reply.fields_ok
     /\ \A i \in 1 .. Len(imp_env.reply.assets) :
            ValidAsset(imp_env.reply.assets[i]) \/ SharesDerivable(imp_env.reply.assets[i])) =>
        /\ Len(imp_response.assets) = Len(imp_env.reply.assets)
        /\ \A i \in 1 .. Len(imp_response.assets) :
              SharesDerivable(imp_env.reply.assets[i]) =>
                 imp_response.assets[i].shares * imp_env.reply.assets[i].current_price[1]
                    = imp_env.reply.assets[i].total_value[1]

InUnitRange(confidence) == confidence >= 0 /\ confidence <= 100

\* C12: in every response analyze_import returns, the overall confidence and
\* the confidence of each holding lie in [0, 1], whatever confidence values
\* the reply reports.
C12_ConfidenceClamped ==
    ImpReturned =>
        /\ InUnitRange(imp_response.confidence)
        /\ \A i \in 1 .. Len(imp_response.assets) :
              InUnitRange(imp_response.assets[i].confidence)

-----------------------------------------------------------------------------
(* Properties of extract_json_from_response, checked under SpecRecover. *)

RecCalled == rec_pc # "idle"
RecReturned == rec_pc = "returned"
RecRaised == rec_pc = "raised"

WholeParse == json_loads(rec_text.tokens, rec_text.pad)
FenceParse == json_loads(FenceSearch(rec_text.tokens).group, 0)
BraceParse == json_loads(BraceSearch(rec_text.tokens).group, 0)
WholeParses == WholeParse.kind = "ok"
FenceParses == FenceSearch(rec_text.tokens).found /\ FenceParse.kind = "ok"
BraceParses == BraceSearch(rec_text.tokens).found /\ BraceParse.kind = "ok"

\* C13: the result is the parse of the whole text if that parses; otherwise
\* the parse of the fenced block's interior if that parses; otherwise the
\* parse of the span from the first "{" to the last "}"; so a fenced block
\* that parses wins over the brace span.
C13_FirstSuccessWins ==
    RecCalled =>
        /\ WholeParses => (RecReturned /\ rec_result.value = WholeParse.value)
        /\ (~WholeParses /\ FenceParses) =>
              (RecReturned /\ rec_result.value = FenceParse.value)
        /\ (~WholeParses /\ ~FenceParses /\ BraceParses) =>
              (RecReturned /\ rec_result.value = BraceParse.value)

\* The fenced blocks of a text: each odd fence with the fence that closes it.
FencedBlocks(tokens) ==
    LET fences == Positions(tokens, "fence")
        rank(i) == Cardinality({k \in fences : k <= i})
    IN  {b \in fences \X fences :
            /\ b[1] < b[2]
            /\ rank(b[1]) % 2 = 1
            /\ rank(b[2]) = rank(b[1]) + 1}

\* The interior of a fenced block, after its json tag if it has one.
BlockInterior(tokens, b) ==
    LET inner == SubSeq(tokens, b[1] + 1, b[2] - 1)
    IN  IF inner # <<>> /\ Head(inner) = "json" THEN Tail(inner) ELSE inner

IsObject(p) == p.kind = "ok" /\ Head(p.value) = "{"

\* C14: for a text that holds a fenced block, tagged json or not, whose
\* interior is a JSON object, whatever surrounds the block, the result is
\* the value of parsing that interior.
C14_FencedBlockRecovered ==
    RecCalled =>
        \A b \in FencedBlocks(rec_text.tokens) :
            LET p == json_loads(BlockInterior(rec_text.tokens, b), 0)
            IN  IsObject(p) => (RecReturned /\ rec_result.value = p.value)

\* C15: when no strategy yields a parse the call raises and returns no value,
\* and the message of the error holds no more of the text than its first 500
\* characters, however long the text is.
C15_TruncatedExcerpt ==
    (RecCalled /\ ~WholeParses /\ ~FenceParses /\ ~BraceParses) =>
        /\ RecRaised
        /\ "value" \notin DOMAIN rec_result
        /\ rec_result.excerpt <= ExcerptLimit
        /\ rec_result.excerpt <= TextLen(rec_text)
        /\ rec_result.exception = "ValueError" =>
              rec_result.excerpt = Min(TextLen(rec_text), ExcerptLimit)

C15_Witness ==
    /\ RecRaised
    /\ rec_result.exception = "ValueError"
    /\ FenceSearch(rec_text.tokens).found
    /\ BraceSearch(rec_text.tokens).found
    /\ TextLen(rec_text) > ExcerptLimit
    /\ rec_result.excerpt = ExcerptLimit

\* C23: every value the call returns is a JSON object, whichever strategy
\* produced it; a text whose whole content, fenced interior or brace span
\* parses to a value that is no object is never returned as a recovery.
C23_RecoveredValueIsObject ==
    RecReturned => Head(rec_result.value) = "{"

-----------------------------------------------------------------------------
(* Properties of extract_text_from_csv, checked under SpecCsv. *)

CsvCalled == csv_pc # "idle"
Decodes(encoding) == Decode(csv_content.bytes, encoding).ok
DecodedUnder(encoding) == Decode(csv_content.bytes, encoding).chars
\* the table if pandas lays the content out as one, the raw text if not
ReadUnder(encoding) ==
    /\ csv_result.encoding = encoding
    /\ csv_result.chars = DecodedUnder(encoding)
    /\ csv_result.form = IF csv_content.tabular THEN "table" ELSE "raw"

-----------------------------------------------------------------------------
(* Properties of calculate_runway and its route, checked under SpecRunway. *)

RunCalled == run_pc # "idle"
RunReturned == run_pc = "returned"
\* the request's liquid assets and its annual gap without debts
Liquid == format_request_for_agent(run_request).liquid_assets
Gap == run_request.annual_expenses - run_request.annual_passive_income
LastYear(projection) == projection[Len(projection)].year

\* C17: in every response calculate_runway returns, runway_status follows
\* from the projection: infinite only when the horizon of 50 years is
\* survived, critical exactly when runway_years < 10, finite otherwise.
C17_StatusDerived ==
    RunReturned =>
        LET r == run_result.response
        IN  /\ r.runway_status = "infinite" => r.runway_years >= Horizon
            /\ r.runway_status = "critical" <=> r.runway_years < CriticalYears

\* C18: with no debts, zero growth, inflation 0, a constant annual gap G and
\* liquid assets L, the projection ends in year ceil(L / G) when G > 0, with
\* runway_years that year and status critical below 10 years and finite
\* otherwise; when G = 0 it reaches year 50 and the status is infinite.
C18_ConstantGap ==
    (/\ RunReturned
     /\ run_request.debts = <<>>
     /\ run_result.response.zero_rates
     /\ Liquid > 0
     /\ Gap >= 0) =>
        LET r == run_result.response
            year == Ceil(Liquid, Gap)
        IN  /\ r.projection # <<>>
            /\ Gap > 0 =>
                  /\ r.runway_years = year
                  /\ LastYear(r.projection) = year
                  /\ r.runway_status = IF year < CriticalYears THEN "critical" ELSE "finite"
            /\ Gap = 0 =>
                  /\ LastYear(r.projection) = Horizon
                  /\ r.runway_status = "infinite"

\* C19: no YearProjection of a response calculate_runway returns has a
\* negative assets value or a negative debts value, whatever the request and
\* the reply of the model.
C19_NoNegativeBalance ==
    RunReturned =>
        \A i \in 1 .. Len(run_result.response.projection) :
            /\ run_result.response.projection[i].assets >= 0
            /\ run_result.response.projection[i].debts >= 0

\* The reply yields no JSON object, or one that is no RunwayResponse.
NothingRecovered ==
    \/ run_env.kind \in {"no_json", "recursion", "not_mapping"}
    \/ /\ run_env.kind = "mapping"
       /\ ~run_env.shape_ok \/ run_env.runway_status \notin RunwayStatus

\* C20: when no structured data can be recovered from the reply, or the
\* recovered data does not fit the response shape, calculate_runway raises,
\* the route answers with an error and no RunwayResponse is returned.
C20_RunwayHardFailure ==
    (RunCalled /\ NothingRecovered) =>
        /\ run_pc = "raised"
        /\ "response" \notin DOMAIN run_result
        /\ run_http.code \in {400, 500}
        /\ run_http.body = <<>>

C20_Witness ==
    /\ run_pc = "raised"
    /\ run_env.kind = "mapping"
    /\ run_env.shape_ok
    /\ run_env.runway_status = "unknown"
    /\ run_env.projection # <<>>
    /\ run_result.exception = "ValidationError"
    /\ run_http = [code |-> 400, body |-> <<>>]

-----------------------------------------------------------------------------
(* Properties of get_stock_growth, checked under SpecStock. *)

StockCalled == stock_pc # "idle"
StockHas(key) == key \in DOMAIN stock_result

\* the lookup gave no usable history: it failed, the series is empty or has
\* fewer than 2 points, or its first and last point are under 6 months apart
InsufficientData ==
    \/ stock_env.hist.kind = "raises"
    \/ stock_env.hist.points < 2
    \/ 2 * 100 * stock_env.hist.span < CentiDaysPerYear

\* C21: get_stock_growth never raises; when the lookup fails, the series is
\* empty or has fewer than 2 points, or the realized span is under 6 months,
\* the result names the ticker and carries an error and a suggestion and no
\* growth figure; a growth figure comes only with a span of 6 months or more.
C21_StockGrowthNeverRaises ==
    StockCalled =>
        /\ stock_pc = "returned"
        /\ StockHas("ticker") /\ stock_result.ticker = stock_args.ticker
        /\ InsufficientData =>
              /\ StockHas("error")
              /\ StockHas("suggestion")
              /\ ~StockHas("annualized_growth")
        /\ StockHas("annualized_growth") =>
              /\ ~InsufficientData
              /\ ~StockHas("error")

C21_Witness ==
    /\ stock_pc = "returned"
    /\ stock_env.hist.kind = "frame"
    /\ stock_env.hist.points >= 2
    /\ stock_env.hist.has_close
    /\ stock_env.hist.span = 182
    /\ stock_args.years = 1
    /\ stock_result.error = "Less than 6 months of data available"
    /\ ~StockHas("annualized_growth")

====
